---- MODULE Spec2Model ----
(***************************************************************************)
(* Model of the tool layer of the SQL agent (src/tools.py) as the external *)
(* reasoning loop drives it (src/agent.py): execute_sql, get_schema and    *)
(* save_data_to_csv acting on one SQLite connection, one optional query    *)
(* history and the filesystem below the working directory.                 *)
(*                                                                         *)
(* Text is a sequence of one-character strings.  A Python value is a       *)
(* record [k, v, items]; its textual literal form is a sequence of lexical *)
(* tokens [t, v], so that str() and ast.literal_eval() are two different   *)
(* conversions.  A file is a sequence of CSV records (lines).              *)
(***************************************************************************)
EXTENDS Integers, Sequences, FiniteSets, TLC

VARIABLES conn, query_history, files, dirs, clock, ncalls, last

vars == <<conn, query_history, files, dirs, clock, ncalls, last>>

\* ------------------------------------------------------------- bounds
MaxCalls == 2

\* query[:100]
TruncLen == 100

\* ------------------------------------------------------------- text
UpperOf(c) ==
  CASE c = "s" -> "S" [] c = "e" -> "E" [] c = "l" -> "L" [] c = "c" -> "C"
    [] c = "t" -> "T" [] c = "v" -> "V" [] c = "x" -> "X" [] c = "f" -> "F"
    [] c = "r" -> "R" [] c = "o" -> "O" [] c = "m" -> "M" [] c = "n" -> "N"
    [] c = "q" -> "Q" [] c = "a" -> "A" [] c = "d" -> "D" [] c = "i" -> "I"
    [] OTHER -> c

LowerOf(c) ==
  CASE c = "S" -> "s" [] c = "E" -> "e" [] c = "L" -> "l" [] c = "C" -> "c"
    [] c = "T" -> "t" [] c = "V" -> "v" [] c = "X" -> "x" [] c = "F" -> "f"
    [] c = "R" -> "r" [] c = "O" -> "o" [] c = "M" -> "m" [] c = "N" -> "n"
    [] c = "Q" -> "q" [] c = "A" -> "a" [] c = "D" -> "d" [] c = "I" -> "i"
    [] OTHER -> c

\* str.upper(), str.lower()
Upper(s) == [i \in 1..Len(s) |-> UpperOf(s[i])]
Lower(s) == [i \in 1..Len(s) |-> LowerOf(s[i])]

IsSpace(c) == c = " "

\* str.strip()
Strip(s) ==
  LET idx == {i \in 1..Len(s) : ~IsSpace(s[i])}
      Min(S) == CHOOSE a \in S : \A b \in S : a <= b
      Max(S) == CHOOSE a \in S : \A b \in S : a >= b
  IN IF idx = {} THEN <<>> ELSE SubSeq(s, Min(idx), Max(idx))

\* str.startswith(), str.endswith()
StartsWith(s, p) == Len(s) >= Len(p) /\ SubSeq(s, 1, Len(p)) = p
EndsWith(s, p) == Len(s) >= Len(p) /\ SubSeq(s, Len(s) - Len(p) + 1, Len(s)) = p

\* s[:n]
Prefix(s, n) == IF Len(s) <= n THEN s ELSE SubSeq(s, 1, n)

IsPrefixOf(a, b) == Len(a) <= Len(b) /\ SubSeq(b, 1, Len(a)) = a

SelectKw == <<"S","E","L","E","C","T">>
CsvExt == <<".","c","s","v">>
Ellipsis == <<".",".",".">>

\* ------------------------------------------------------------- values
\* Python values: k is the type, v the payload of a scalar (the integer, or
\* the index of a text in StrTab; float stands for inf), items the members of
\* a list or tuple.
PyInt(n) == [k |-> "int", v |-> n, items |-> <<>>]
PyStr(i) == [k |-> "str", v |-> i, items |-> <<>>]
PyNone == [k |-> "NoneType", v |-> 0, items |-> <<>>]
PyInf == [k |-> "float", v |-> 0, items |-> <<>>]
PyList(xs) == [k |-> "list", v |-> 0, items |-> xs]
PyTuple(xs) == [k |-> "tuple", v |-> 0, items |-> xs]

StrTab == <<"a", "x", "INTEGER", "n", "TEXT", "t", "">>
IntTab == <<"0", "1", "2", "3", "4", "5">>

IsContainer(val) == val.k \in {"list", "tuple"}

\* Python truthiness, as in `not data`
Truthy(val) ==
  CASE val.k \in {"list", "tuple"} -> val.items # <<>>
    [] val.k = "int" -> val.v # 0
    [] val.k = "str" -> StrTab[val.v] # ""
    [] val.k = "NoneType" -> FALSE
    [] OTHER -> TRUE

\* ------------------------------------------------------------- literals
\* Lexical tokens of a literal text.
Tok(t, v) == [t |-> t, v |-> v]
LBrack == Tok("[", 0)
RBrack == Tok("]", 0)
LParen == Tok("(", 0)
RParen == Tok(")", 0)
Comma == Tok(",", 0)
NameNone == Tok("name", 0)
NameInf == Tok("name", 1)

RECURSIVE Repr(_)
RECURSIVE ReprItems(_)
\* repr() of the members, comma separated
ReprItems(xs) ==
  IF xs = <<>> THEN <<>>
  ELSE IF Len(xs) = 1 THEN Repr(xs[1])
  ELSE Repr(xs[1]) \o <<Comma>> \o ReprItems(Tail(xs))

\* str(rows): the literal text of a value
Repr(val) ==
  CASE val.k = "int" -> <<Tok("int", val.v)>>
    [] val.k = "str" -> <<Tok("str", val.v)>>
    [] val.k = "NoneType" -> <<NameNone>>
    [] val.k = "float" -> <<NameInf>>
    [] val.k = "list" -> <<LBrack>> \o ReprItems(val.items) \o <<RBrack>>
    [] val.k = "tuple" ->
         <<LParen>> \o ReprItems(val.items)
           \o (IF Len(val.items) = 1 THEN <<Comma>> ELSE <<>>) \o <<RParen>>

Failed == [ok |-> FALSE, val |-> PyNone, rest |-> <<>>, comma |-> FALSE]
Parsed(val, rest) == [ok |-> TRUE, val |-> val, rest |-> rest, comma |-> FALSE]

RECURSIVE ParseValue(_)
RECURSIVE ParseItems(_, _, _, _)
\* the members of a display up to the closing token `close`; comma tells
\* whether a comma was read (a parenthesised single value is no tuple)
ParseItems(toks, close, acc, comma) ==
  IF toks = <<>> THEN Failed
  ELSE IF Head(toks) = close
    THEN [ok |-> TRUE, val |-> PyList(acc), rest |-> Tail(toks), comma |-> comma]
  ELSE
    LET r == ParseValue(toks) IN
    IF ~r.ok \/ r.rest = <<>> THEN Failed
    ELSE IF Head(r.rest) = Comma
      THEN ParseItems(Tail(r.rest), close, Append(acc, r.val), TRUE)
    ELSE IF Head(r.rest) = close
      THEN [ok |-> TRUE, val |-> PyList(Append(acc, r.val)),
            rest |-> Tail(r.rest), comma |-> comma]
    ELSE Failed

ParseValue(toks) ==
  IF toks = <<>> THEN Failed
  ELSE
    LET h == Head(toks) IN
    CASE h.t = "int" -> Parsed(PyInt(h.v), Tail(toks))
      [] h.t = "str" -> Parsed(PyStr(h.v), Tail(toks))
      [] h.t = "name" ->
           IF h = NameNone THEN Parsed(PyNone, Tail(toks)) ELSE Failed
      [] h.t = "[" ->
           LET r == ParseItems(Tail(toks), RBrack, <<>>, FALSE) IN
           IF r.ok THEN Parsed(r.val, r.rest) ELSE Failed
      [] h.t = "(" ->
           LET r == ParseItems(Tail(toks), RParen, <<>>, FALSE) IN
           IF ~r.ok THEN Failed
           ELSE IF Len(r.val.items) = 1 /\ ~r.comma
             THEN Parsed(r.val.items[1], r.rest)
           ELSE Parsed(PyTuple(r.val.items), r.rest)
      [] OTHER -> Failed

\* ast.literal_eval(text): ok is FALSE where it raises
LiteralEval(toks) ==
  LET r == ParseValue(toks) IN
  IF r.ok /\ r.rest = <<>> THEN r ELSE Failed

\* ------------------------------------------------------------- CSV records
\* One record (line) of a CSV file, as csv.writer writes it.
Line(k, ts, text, fields) == [k |-> k, ts |-> ts, text |-> text, fields |-> fields]

\* writer.writerow([])
BlankLine == Line("blank", 0, <<>>, <<>>)
\* writer.writerow([f"=== AUTO-SAVED Query at: {timestamp} ==="])
AutoBanner(ts) == Line("auto", ts, <<>>, <<>>)
\* writer.writerow([f"SQL: {query[:100]}..."])
SqlLine(query) == Line("sql", 0, Prefix(query, TruncLen) \o Ellipsis, <<>>)
\* writer.writerow([f"Generated at: {timestamp}"])
GeneratedLine(ts) == Line("generated", ts, <<>>, <<>>)
\* writer.writerow([f"Description: {query_description}"])
DescriptionLine(d) == Line("description", 0, d, <<>>)

\* the text csv.writer writes for one field: None becomes the empty text,
\* anything else its str()
CsvField(val) ==
  CASE val.k = "NoneType" -> ""
    [] val.k = "int" -> IntTab[val.v + 1]
    [] val.k = "str" -> StrTab[val.v]
    [] val.k = "float" -> "inf"
    [] OTHER -> "object"

\* writer.writerow(row) for a list or tuple row; an empty row is a blank line
RowLine(row) ==
  IF row.items = <<>> THEN BlankLine
  ELSE Line("row", 0, <<>>, [i \in 1..Len(row.items) |-> CsvField(row.items[i])])

\* writer.writerows(rows)
RowLines(rows) == [i \in 1..Len(rows) |-> RowLine(rows[i])]

\* ------------------------------------------------------------- paths
\* A path is the sequence of its components below the root; a component is
\* a text.
Slash == "/"
Dot == <<".">>
DotDot == <<".", ".">>

RECURSIVE Split(_, _)
\* the components of a text between slashes (cur is the component being read)
Split(s, cur) ==
  IF s = <<>> THEN <<cur>>
  ELSE IF Head(s) = Slash THEN <<cur>> \o Split(Tail(s), <<>>)
  ELSE Split(Tail(s), Append(cur, Head(s)))

RECURSIVE NormPath(_, _)
\* os.path.normpath of an absolute path: empty and "." components dropped,
\* ".." removes the component before it (none at the root)
NormPath(comps, acc) ==
  IF comps = <<>> THEN acc
  ELSE
    LET c == Head(comps) IN
    IF c = <<>> \/ c = Dot THEN NormPath(Tail(comps), acc)
    ELSE IF c = DotDot
      THEN NormPath(Tail(comps),
                    IF acc = <<>> THEN acc ELSE SubSeq(acc, 1, Len(acc) - 1))
    ELSE NormPath(Tail(comps), Append(acc, c))

\* os.getcwd()
Cwd == << <<"w">> >>

\* os.path.join(base, name): an absolute name replaces the base
PathJoin(base, name) ==
  IF name # <<>> /\ Head(name) = Slash THEN Split(name, <<>>)
  ELSE base \o Split(name, <<>>)

\* os.path.abspath(path)
AbsPath(comps) == NormPath(comps, <<>>)

Parent(path) == SubSeq(path, 1, Len(path) - 1)

FilesName == <<"f","i","l","e","s">>
GlobalName ==
  <<"q","u","e","r","y","_","r","e","s","u","l","t","s",".","c","s","v">>

\* os.path.abspath("query_results.csv")
GlobalPath == AbsPath(PathJoin(Cwd, GlobalName))
\* os.path.join(os.getcwd(), "files")
BaseDir == PathJoin(Cwd, FilesName)

\* os.path.exists(path)
PathExists(fs, ds, path) == path \in DOMAIN fs \/ path \in ds

\* the content of a file, empty when there is none
Content(fs, path) == IF path \in DOMAIN fs THEN fs[path] ELSE <<>>

\* whether open(path, mode) succeeds for writing: the environment permits
\* it, the parent is a directory and the path is not one
CanOpen(ds, path, io) ==
  io # "denied" /\ path # <<>> /\ Parent(path) \in ds /\ path \notin ds

\* The file after `with open(path, 'a') ... write lines`: the text is appended,
\* or, when the write fails after the open, the file is there as it was.
AppendedFile(fs, path, lines, io) ==
  IF io = "ok" THEN Content(fs, path) \o lines ELSE Content(fs, path)

\* The file after `with open(path, 'w') ... write lines`: the file holds the
\* text alone, or, when the write fails after the open, nothing.
OverwrittenFileKeepingOld(fs, path, lines, io) ==
  IF io = "ok" THEN Content(fs, path) \o lines ELSE Content(fs, path)
OverwrittenFile(fs, path, lines, io) ==
  IF io = "ok" THEN lines ELSE <<>>

IoOutcomes == {"ok", "denied", "writefail"}

\* ------------------------------------------------------------- database
\* The statements the reasoning loop submits.
SelT == <<"S","E","L","E","C","T"," ","*"," ","F","R","O","M"," ","t">>
SelPad == <<" ","s","e","l","e","c","t"," ","*"," ","f","r","o","m"," ","t"," ">>
InsN ==
  <<"I","N","S","E","R","T"," ","I","N","T","O"," ","t"," ",
    "V","A","L","U","E","S"," ","(","2",",","N","U","L","L",")">>
DelT == <<"D","E","L","E","T","E"," ","F","R","O","M"," ","t">>
NotSql == <<"n","o","t"," ","s","q","l">>
PragmaT ==
  <<"P","R","A","G","M","A"," ","t","a","b","l","e","_","i","n","f","o","(","t",")">>
SelInf == <<"S","E","L","E","C","T"," ","1","e","9","9","9">>
\* a lone surrogate code point, which has no UTF-8 encoding
Surrogate == "\\udc80"
SelSurrogate == <<"S","E","L","E","C","T"," ","'",Surrogate,"'">>
\* a statement longer than the banner keeps
SelLong == SelT \o [i \in 1..TruncLen |-> " "]

Statements ==
  {SelT, SelPad, InsN, DelT, NotSql, PragmaT, SelInf, SelSurrogate, SelLong}

RowA == PyTuple(<<PyInt(1), PyStr(1)>>)
RowN == PyTuple(<<PyInt(2), PyNone>>)

\* the rows of PRAGMA table_info(t): (cid, name, type, notnull, dflt_value, pk)
TableInfoT ==
  << PyTuple(<<PyInt(0), PyStr(2), PyStr(3), PyInt(0), PyNone, PyInt(0)>>),
     PyTuple(<<PyInt(1), PyStr(4), PyStr(5), PyInt(0), PyNone, PyInt(0)>> ) >>

\* What cursor.execute(query) does on a connection whose table t holds
\* `rows`: kind "rows" (cursor.description is set), "nodesc" (it is not),
\* "dberror" (sqlite3.Error is raised) or "raise" (another exception).
DbResult(kind, rows, table) == [kind |-> kind, rows |-> rows, table |-> table]

SelTUpper == Upper(SelT)
InsNUpper == Upper(InsN)
DelTUpper == Upper(DelT)
PragmaTUpper == Upper(PragmaT)
SelInfUpper == Upper(SelInf)

\* query.strip().upper() of the statements, computed once
UpperStripped == [q \in Statements |-> Upper(Strip(q))]

\* A text that cannot be encoded as UTF-8 is refused before it reaches the
\* database, with UnicodeEncodeError, which is no sqlite3.Error.
CursorExecute(table, query) ==
  LET q == UpperStripped[query] IN
  CASE \E i \in 1..Len(query) : query[i] = Surrogate ->
         DbResult("raise", <<>>, table)
    [] q = SelTUpper -> DbResult("rows", table, table)
    [] q = InsNUpper -> DbResult("nodesc", <<>>, Append(table, RowN))
    [] q = DelTUpper -> DbResult("nodesc", <<>>, <<>>)
    [] q = PragmaTUpper -> DbResult("rows", TableInfoT, table)
    [] q = SelInfUpper -> DbResult("rows", <<PyTuple(<<PyInf>>)>>, table)
    [] OTHER -> DbResult("dberror", <<>>, table)

\* conn.commit()
CommitNone(c) == c
Commit(c) == [c EXCEPT !.committed = c.working]

\* ------------------------------------------------------------- results
\* What a tool call gives its caller: a text (a fixed message, or "literal"
\* for the literal text toks), or an exception.
Ret(text, toks) == [raised |-> FALSE, text |-> text, toks |-> toks]
Raised == [raised |-> TRUE, text |-> "exception", toks |-> <<>>]

MsgExecuted == "Query executed successfully (no data returned)."
MsgError == "Error: "
MsgSuccess == "Success: Data saved to individual file "
MsgUnparsed == "Error: Provided data string could not be parsed into a list."
MsgNoData == "Error: No data provided. The data list is empty."
MsgNotList == "Error: Data must be a list, received "
MsgPermission == "Error: Permission denied. Cannot write to "
MsgOsError == "Error: OS error occurred - "

\* ------------------------------------------------------------- auto-save
\* query.strip().upper().startswith('SELECT')
IsSelect(query) == StartsWith(UpperStripped[query], SelectKw)

\* the records one auto-save writes
AutoSaveLinesNoSeparator(file_exists, query, data, now) ==
  <<AutoBanner(now), SqlLine(query)>> \o RowLines(data.items)
AutoSaveLines(file_exists, query, data, now) ==
  (IF file_exists THEN <<BlankLine>> ELSE <<>>)
    \o <<AutoBanner(now), SqlLine(query)>> \o RowLines(data.items)

\* _auto_save_to_global_csv(query, result): the files after it, whether it
\* wrote its block, and what the environment did to the write ("" when it
\* did not come to opening the file)
AutoSaveToGlobalCsv(fs, ds, query, result, now, io) ==
  LET r == LiteralEval(result)
      unchanged == [fs |-> fs, saved |-> FALSE, io |-> ""]
  IN
  IF ~IsSelect(query) THEN unchanged
  ELSE IF ~r.ok THEN unchanged
  ELSE IF ~Truthy(r.val) \/ r.val.k # "list" THEN unchanged
  ELSE IF ~CanOpen(ds, GlobalPath, io) THEN [unchanged EXCEPT !.io = io]
  ELSE
    LET lines == AutoSaveLines(PathExists(fs, ds, GlobalPath), query, r.val, now)
    IN [fs |-> (GlobalPath :> AppendedFile(fs, GlobalPath, lines, io)) @@ fs,
        saved |-> io = "ok", io |-> io]

\* ------------------------------------------------------------- save
\* The data argument: a value, or (isStr) a text to be parsed.
DataValue(val) == [isStr |-> FALSE, val |-> val, toks |-> <<>>]
DataText(toks) == [isStr |-> TRUE, val |-> PyNone, toks |-> toks]

\* the inverse parse of a text argument, or the value as given
ParsedData(data) ==
  IF data.isStr THEN LiteralEval(data.toks) ELSE Parsed(data.val, <<>>)

\* the checks of the data before anything is written: the message of the
\* rejection, or "" when the data is accepted
ValidateDataNoEmptyCheck(data) ==
  LET r == ParsedData(data) IN
  IF ~r.ok THEN MsgUnparsed
  ELSE IF Truthy(r.val) /\ r.val.k # "list" THEN MsgNotList
  ELSE ""
ValidateData(data) ==
  LET r == ParsedData(data) IN
  IF ~r.ok THEN MsgUnparsed
  ELSE IF ~Truthy(r.val) THEN MsgNoData
  ELSE IF r.val.k # "list" THEN MsgNotList
  ELSE ""

\* rows = [list(row) if isinstance(row, (list, tuple)) else [row] for row in data]
NormalizeRows(val) ==
  [i \in 1..Len(val.items) |->
     IF IsContainer(val.items[i]) THEN PyList(val.items[i].items)
     ELSE PyList(<<val.items[i]>>)]

\* datetime.now().strftime("%Y%m%d_%H%M%S")
Stamp(now) == <<IntTab[now + 1]>>

QueryPrefix == <<"q","u","e","r","y","_">>

\* if not filename.lower().endswith(".csv"): filename += ".csv"
EnsureCsvExtensionCaseSensitive(filename) ==
  IF ~EndsWith(filename, CsvExt) THEN filename \o CsvExt ELSE filename
EnsureCsvExtension(filename) ==
  IF ~EndsWith(Lower(filename), CsvExt) THEN filename \o CsvExt ELSE filename

\* the name of the file: generated when none is given, then with its extension
FileName(filename, now) ==
  EnsureCsvExtension(
    IF filename = <<>> THEN QueryPrefix \o Stamp(now) \o CsvExt ELSE filename)

\* abs_path = os.path.abspath(os.path.join(base_dir, filename))
FilePath(fname) == AbsPath(PathJoin(BaseDir, fname))

\* the optional header and the rows
FileLines(rows, desc, now) ==
  (IF desc # <<>>
    THEN <<GeneratedLine(now), DescriptionLine(desc), BlankLine>>
    ELSE <<>>) \o RowLines(rows)

\* ------------------------------------------------------------- inputs
DataRows == PyList(<<RowA, PyInt(2)>>)
DataShort == PyList(<<RowN>>)

Datas ==
  { DataValue(DataRows), DataText(Repr(DataShort)), DataValue(PyList(<<>>)),
    DataValue(PyInt(5)), DataText(<<LBrack, LParen>>) }

NameO == <<"o">>
NameOCsv == <<"o", ".", "c", "s", "v">>
NameOCsvUpper == <<"O", ".", "C", "S", "V">>
NameUp == <<".", ".", "/">> \o GlobalName
NameSub == <<"d", "/", "o">>
NameAbs == <<"/", "o", ".", "c", "s", "v">>

FileNames == {<<>>, NameO, NameOCsv, NameOCsvUpper, NameUp, NameSub, NameAbs}

Descriptions == {<<>>, <<"d">>}

TableT == <<"t">>
TableNames == {<<>>, TableT, <<"z">>, <<"a", " ", "b">>}

\* ------------------------------------------------------------- state
\* conn: the table t as committed and as the connection sees it (the
\* session starts with no row or one row in it).
\* query_history: the list the session gave create_agent (with None instead
\* of a list, execute_sql keeps no history at all).
\* files, dirs: the regular files (path -> records) and the directories.
\* clock: the second datetime.now() last read.  ncalls: the tool calls made.
\* last: the latest tool call: its arguments (text is the statement, the
\* table name or the file name), what it returned, and what it found and
\* did: the outcome of the statement and its rows, the environment's part in
\* the write, the name and path of the file, the file's content before.
NoData == DataValue(PyNone)

NoCall ==
  [op |-> "none", text |-> <<>>, data |-> NoData, desc |-> <<>>,
   ret |-> Ret("", <<>>), outcome |-> "", rows |-> <<>>, io |-> "",
   saved |-> FALSE, opened |-> FALSE, path |-> <<>>, fname |-> <<>>,
   pre |-> <<>>, existed |-> FALSE, now |-> 0]

Init ==
  /\ \E table \in {<<>>, <<RowA>>} : conn = [committed |-> table, working |-> table]
  /\ query_history = <<>>
  /\ files = <<>>
  /\ dirs = {<<>>, Cwd}
  /\ clock = 0
  /\ ncalls = 0
  /\ last = NoCall

\* query_history.append(query)
HistoryAppendStripped(h, query) == Append(h, Strip(query))
HistoryAppend(h, query) == Append(h, query)

\* datetime.now(): the second of the previous reading, or a later one
Nows == {clock, clock + 1}

\* execute_sql(conn, query, query_history)
ExecuteSql(query) ==
  /\ ncalls < MaxCalls
  /\ ncalls' = ncalls + 1
  /\ query_history' = HistoryAppend(query_history, query)
  /\ LET r == CursorExecute(conn.working, query)
           result == Repr(PyList(r.rows))
           call == [NoCall EXCEPT !.op = "execute_sql", !.text = query,
                                  !.outcome = r.kind, !.rows = r.rows,
                                  !.pre = Content(files, GlobalPath),
                                  !.existed = PathExists(files, dirs, GlobalPath),
                                  !.now = clock]
     IN
       CASE r.kind = "rows" ->
              /\ conn' = conn
              /\ \E io \in IoOutcomes, now \in Nows :
                   LET auto == AutoSaveToGlobalCsv(files, dirs, query, result, now, io)
                   IN /\ files' = auto.fs
                      /\ clock' = IF auto.saved THEN now ELSE clock
                      /\ last' = [call EXCEPT !.ret = Ret("literal", result),
                                              !.saved = auto.saved, !.io = auto.io,
                                              !.now = clock']
         [] r.kind = "nodesc" ->
              /\ conn' = Commit([conn EXCEPT !.working = r.table])
              /\ last' = [call EXCEPT !.ret = Ret(MsgExecuted, <<>>)]
              /\ UNCHANGED <<files, clock>>
         [] r.kind = "dberror" ->
              /\ conn' = conn
              /\ last' = [call EXCEPT !.ret = Ret(MsgError, <<>>)]
              /\ UNCHANGED <<files, clock>>
         [] OTHER ->
              /\ conn' = conn
              /\ last' = [call EXCEPT !.ret = Raised]
              /\ UNCHANGED <<files, clock>>
  /\ UNCHANGED dirs

\* the argument of PRAGMA table_info(...) is one name
IsName(name) == \A i \in 1..Len(name) : name[i] \notin {" ", "(", ")", ";", "'"}

\* the (name, type) pairs of PRAGMA table_info(table_name)
Columns(table_name) ==
  IF table_name = TableT
    THEN <<PyTuple(<<PyStr(2), PyStr(3)>>), PyTuple(<<PyStr(4), PyStr(5)>>)>>
    ELSE <<>>

\* get_schema(conn, table_name); no table_name (None or "") is the empty text
GetSchema(table_name) ==
  /\ ncalls < MaxCalls
  /\ ncalls' = ncalls + 1
  /\ LET call == [NoCall EXCEPT !.op = "get_schema", !.text = table_name,
                                !.now = clock]
     IN
     IF table_name # <<>>
       THEN IF IsName(table_name)
              THEN last' = [call EXCEPT
                              !.ret = Ret("literal", Repr(PyList(Columns(table_name))))]
              ELSE last' = [call EXCEPT !.ret = Raised]
       ELSE last' = [call EXCEPT !.ret = Ret("literal", Repr(PyList(<<PyStr(6)>>)))]
  /\ UNCHANGED <<conn, query_history, files, dirs, clock>>

\* ValidateData, the normalized rows and FilePath(FileName(..)) of the
\* arguments a call can have, computed once
Rejection == [d \in Datas |-> ValidateData(d)]
Rows == [d \in Datas |-> NormalizeRows(ParsedData(d).val)]
Named == [f \in FileNames |-> [n \in 0..(Len(IntTab) - 1) |-> FileName(f, n)]]
PathOf == [f \in FileNames |-> [n \in 0..(Len(IntTab) - 1) |-> FilePath(Named[f][n])]]

\* whether the call reads datetime.now(): for the name, or, once the file is
\* open, for the header
ReadsClock(filename, desc, io) == filename = <<>> \/ (desc # <<>> /\ io # "denied")

\* save_data_to_csv(data, filename, query_description)
SaveDataToCsv(data, filename, desc) ==
  /\ ncalls < MaxCalls
  /\ ncalls' = ncalls + 1
  /\ LET rejected == Rejection[data]
         rows == Rows[data]
         call == [NoCall EXCEPT !.op = "save_data_to_csv", !.text = filename,
                                !.data = data, !.desc = desc, !.now = clock]
     IN
     IF rejected # ""
       THEN /\ last' = [call EXCEPT !.ret = Ret(rejected, <<>>)]
            /\ UNCHANGED <<files, dirs, clock>>
       ELSE \E io \in IoOutcomes :
            \E now \in IF ReadsClock(filename, desc, io) THEN Nows ELSE {clock} :
         LET fname == Named[filename][now]
             path == PathOf[filename][now]
             lines == FileLines(rows, desc, now)
             named == [call EXCEPT !.fname = fname, !.io = io, !.now = now]
         IN
         /\ clock' = now
         /\ IF io = "denied"
              THEN /\ last' = [named EXCEPT !.ret = Ret(MsgPermission, <<>>)]
                   /\ UNCHANGED <<files, dirs>>
            ELSE IF BaseDir \in DOMAIN files
              THEN /\ last' = [named EXCEPT !.ret = Ret(MsgOsError, <<>>)]
                   /\ UNCHANGED <<files, dirs>>
            ELSE IF ~CanOpen(dirs \cup {BaseDir}, path, io)
              THEN /\ last' = [named EXCEPT !.ret = Ret(MsgOsError, <<>>)]
                   /\ dirs' = dirs \cup {BaseDir}
                   /\ files' = files
            ELSE /\ dirs' = dirs \cup {BaseDir}
                 /\ files' = (path :> OverwrittenFile(files, path, lines, io)) @@ files
                 /\ last' = [named EXCEPT
                               !.ret = Ret(IF io = "ok" THEN MsgSuccess ELSE MsgOsError,
                                           <<>>),
                               !.opened = TRUE, !.path = path,
                               !.pre = Content(files, path),
                               !.existed = path \in DOMAIN files]
  /\ UNCHANGED <<conn, query_history>>

Next ==
  \/ \E table_name \in TableNames : GetSchema(table_name)
  \/ \E query \in Statements : ExecuteSql(query)
  \/ \E data \in Datas, filename \in FileNames, desc \in Descriptions :
       SaveDataToCsv(data, filename, desc)

Spec == Init /\ [][Next]_vars

\* ------------------------------------------------------------- properties
GlobalContent == Content(files, GlobalPath)

\* the block one auto-save writes for a call
Block(call) == <<AutoBanner(call.now), SqlLine(call.text)>> \o RowLines(call.rows)

\* a call of execute_sql with a SELECT statement that returned its rows
SelectReturned(call) ==
  /\ call.op = "execute_sql"
  /\ IsSelect(call.text)
  /\ ~call.ret.raised
  /\ call.ret.text = "literal"

\* ... which returned at least one row, whose text parses back, and whose
\* append the environment let through
SelectSavable(call) ==
  /\ SelectReturned(call)
  /\ call.rows # <<>>
  /\ LiteralEval(call.ret.toks).ok
  /\ call.io = "ok"

\* C1: every call of execute_sql, get_schema and save_data_to_csv returns a
\* text; none raises an exception to its caller.
C1_NeverRaises == ~last.ret.raised

\* C2: every execute_sql call appends its statement verbatim to the end of
\* the history, whether the statement succeeds or fails, leaving the earlier
\* entries as they were; get_schema and save_data_to_csv leave the history
\* unchanged.
C2_HistoryAppends ==
  [][IF last'.op = "execute_sql"
       THEN query_history' = query_history \o <<last'.text>>
       ELSE query_history' = query_history]_vars

C2_Witness ==
  /\ last.op = "execute_sql"
  /\ last.ret.text = MsgError
  /\ Len(query_history) = 2
  /\ query_history[2] = last.text
  /\ query_history[1] = SelPad

\* C3: the content of the global artifact before a tool call is a prefix of
\* its content after the call.
C3_GlobalAppendOnly ==
  [][IsPrefixOf(GlobalContent, GlobalContent')]_vars

\* C4 (as stated): after two successful execute_sql calls with SELECT
\* statements, starting from an absent global artifact, the artifact is the
\* block of the first, a blank line, and the block of the second.
C4_TwoSelectsTwoBlocks ==
  [][(SelectReturned(last) /\ ~last.existed /\ SelectReturned(last'))
       => GlobalContent' = Block(last) \o <<BlankLine>> \o Block(last')]_vars

\* C4 (amended): the same, for two consecutive calls that each return at
\* least one row whose text parses back and whose append succeeds.
C4_TwoSavedSelectsTwoBlocks ==
  [][(SelectSavable(last) /\ ~last.existed /\ SelectSavable(last'))
       => GlobalContent' = Block(last) \o <<BlankLine>> \o Block(last')]_vars

C4_Witness ==
  /\ SelectSavable(last)
  /\ last.pre # <<>>
  /\ last.pre[1].k = "auto"
  /\ BlankLine \notin {last.pre[i] : i \in 1..Len(last.pre)}
  /\ GlobalContent = last.pre \o <<BlankLine>> \o Block(last)

\* C5: the file save_data_to_csv opens for writing is directly under the
\* files directory of the working directory, which exists by then.
C5_UnderFiles ==
  (last.op = "save_data_to_csv" /\ last.opened)
    => (Parent(last.path) = BaseDir /\ BaseDir \in dirs)

\* C6: after a successful save_data_to_csv the file holds the optional
\* header and the rows of that call and nothing else, whatever it held
\* before.
C6_OverwriteLeavesSecond ==
  (last.op = "save_data_to_csv" /\ last.ret.text = MsgSuccess)
    => /\ last.path \in DOMAIN files
       /\ files[last.path] =
            FileLines(Rows[last.data], last.desc, last.now)

C6_Witness ==
  /\ last.op = "save_data_to_csv"
  /\ last.ret.text = MsgSuccess
  /\ last.path = BaseDir \o <<NameOCsv>>
  /\ last.existed
  /\ Len(last.pre) > Len(files[last.path])
  /\ last.desc = <<>>

\* C7: the name save_data_to_csv writes to ends in .csv: a name that ends in
\* .csv in any letter case is used as it is, another non-empty name gets
\* .csv appended once, an empty name becomes query_<timestamp>.csv.
C7_CsvSuffixOnce ==
  (last.op = "save_data_to_csv" /\ last.fname # <<>>)
    => /\ EndsWith(Lower(last.fname), CsvExt)
       /\ IF last.text = <<>>
            THEN last.fname = QueryPrefix \o Stamp(last.now) \o CsvExt
          ELSE IF EndsWith(Lower(last.text), CsvExt)
            THEN last.fname = last.text
          ELSE /\ last.fname = last.text \o CsvExt
               /\ ~EndsWith(Lower(last.text), CsvExt)
       /\ last.opened => EndsWith(Lower(last.path[Len(last.path)]), CsvExt)

C7_Witness ==
  /\ last.op = "save_data_to_csv"
  /\ last.text = NameOCsvUpper
  /\ last.opened
  /\ last.path = BaseDir \o <<NameOCsvUpper>>

\* data that is empty, no list, or a text that does not parse
BadData(data) ==
  LET r == ParsedData(data) IN
  ~r.ok \/ r.val.k # "list" \/ r.val.items = <<>>

\* C8: save_data_to_csv answers empty data, data that is no list and text
\* that does not parse with an error text, and then leaves the files and
\* the directories as they were.
C8_RejectionWritesNothing ==
  [][(last'.op = "save_data_to_csv" /\ BadData(last'.data))
       => /\ ~last'.ret.raised
          /\ last'.ret.text \in {MsgUnparsed, MsgNoData, MsgNotList}
          /\ files' = files
          /\ dirs' = dirs]_vars

C8_Witness ==
  /\ last.op = "save_data_to_csv"
  /\ last.data = DataValue(PyList(<<>>))
  /\ last.ret.text = MsgNoData
  /\ BaseDir \notin dirs
  /\ files = <<>>

\* C9: a statement without column metadata that meets no database error is
\* committed and answered with the fixed message, and a SELECT that follows
\* returns the committed rows; a database error is answered with a text
\* that starts with "Error: ".
C9_CommitOrError ==
  [][/\ (last'.op = "execute_sql" /\ last'.outcome = "nodesc")
          => /\ last'.ret = Ret(MsgExecuted, <<>>)
             /\ conn'.committed = conn'.working
     /\ (last'.op = "execute_sql" /\ last'.outcome = "dberror")
          => last'.ret = Ret(MsgError, <<>>)
     /\ (/\ last.op = "execute_sql" /\ last.outcome = "nodesc"
         /\ last'.op = "execute_sql" /\ last'.text = SelT)
          => /\ last'.rows = conn.committed
             /\ last'.ret = Ret("literal", Repr(PyList(conn.committed)))]_vars

C9_Witness ==
  /\ last.op = "execute_sql"
  /\ last.text = SelT
  /\ last.rows = <<RowA, RowN>>
  /\ last.rows = conn.committed
  /\ query_history = <<InsN, SelT>>

\* C10: an auto-save writes a blank separator line before its banner if and
\* only if the file had content at the time of the append.
C10_SeparatorIffContent ==
  (last.op = "execute_sql" /\ last.saved)
    => (GlobalContent[Len(last.pre) + 1] = BlankLine <=> last.pre # <<>>)

====
